---- MODULE Spec2Model ----
(***************************************************************************)
(* Model of Data.py, the "Universal Data Analyzer" Streamlit script.       *)
(* One render pass is one top-to-bottom execution of the script; every     *)
(* section of the script is one action.  A CSV file is a sequence of       *)
(* lines, a line is a sequence of field texts (<<>> is a blank line,       *)
(* <<"">> is a line holding one empty, quoted field).                      *)
(***************************************************************************)
EXTENDS Integers, Sequences, FiniteSets

VARIABLES
    uploaded_file,      \* st.file_uploader's value: [present, lines]
    pc,                 \* position of the render pass in the script
    df,                 \* the table read by pd.read_csv
    metrics,            \* <<Rows, Columns, Duplicate Rows>> as shown
    dtype_df,           \* the "Column Data Types" table as shown
    categorical_cols,   \* list of line 58
    numeric_cols,       \* list of line 59
    missing_df,         \* the "Missing Value Analysis" table as shown
    page,               \* the elements rendered so far, in order
    csv                 \* the bytes handed to st.download_button

vars == <<uploaded_file, pc, df, metrics, dtype_df, categorical_cols,
          numeric_cols, missing_df, page, csv>>

-----------------------------------------------------------------------------
(* Inputs *)

\* Largest number of lines after the header in an uploaded file.
MaxRows == 3

\* Field texts an uploaded file is made of.
Tokens == {"", "1", "True"}

\* Header lines of the uploaded files.
Headers == {<<"a">>, <<"a", "b">>}

\* Number of fields a line after the header may hold (0 is a blank line).
FieldCounts == 0..2

RECURSIVE SeqsUpTo(_, _)
SeqsUpTo(S, n) ==
    IF n = 0 THEN {<<>>}
    ELSE LET shorter == SeqsUpTo(S, n - 1)
         IN  shorter \cup {Append(s, x) : s \in {t \in shorter : Len(t) = n - 1}, x \in S}

Lines == {l \in SeqsUpTo(Tokens, 2) : Len(l) \in FieldCounts}

\* The contents a user can upload: an empty file, or a header and lines.
Files == {<<>>} \cup {<<h>> \o ls : h \in Headers, ls \in SeqsUpTo(Lines, MaxRows)}

NoFile == [present |-> FALSE, lines |-> <<>>]

-----------------------------------------------------------------------------
(* Cells and column types of a table *)

Cell(t, n, s) == [t |-> t, n |-> n, s |-> s]
NaN == Cell("nan", 0, "")
IntCell(n) == Cell("int", n, "")
FloatCell(n) == Cell("float", n, "")
BoolCell(b) == Cell("bool", IF b THEN 1 ELSE 0, "")
StrCell(s) == Cell("str", 0, s)

isnull(c) == c.t = "nan"

\* pandas' default na_values, as far as the field texts go.
NAStrings == {"", "NA", "NaN", "nan", "N/A", "NULL", "null"}

\* Texts the parser reads as integers, with their values.
IntStrings == {"0", "1", "2", "01"}
IntOf(s) == CASE s = "0" -> 0 [] s = "1" -> 1 [] s = "2" -> 2 [] s = "01" -> 1

\* Texts the parser reads as floats (and not as integers), with their values.
FloatStrings == {"0.0", "1.0", "2.0"}
FloatOf(s) == CASE s = "0.0" -> 0 [] s = "1.0" -> 1 [] s = "2.0" -> 2

\* pandas' default true_values and false_values.
TrueStrings == {"True", "TRUE", "true"}
FalseStrings == {"False", "FALSE", "false"}

Range(s) == {s[i] : i \in DOMAIN s}

\* What the given (not missing) texts of a column can all be read as; the
\* C parser tries integers, then floats, then booleans, then keeps text.
value_kind(texts) ==
    LET given == {x \in Range(texts) : x \notin NAStrings}
    IN  IF given \subseteq IntStrings THEN "int"
        ELSE IF given \subseteq (IntStrings \cup FloatStrings) THEN "float"
        ELSE IF given \subseteq (TrueStrings \cup FalseStrings) THEN "bool"
        ELSE "str"

\* The dtype of a column of field texts: integers with a missing value
\* become float64, booleans with a missing value become object; a column
\* without rows is object.
infer_dtype(texts) ==
    LET hasNA == \E x \in Range(texts) : x \in NAStrings
        kind == value_kind(texts)
    IN  IF Len(texts) = 0 THEN "object"
        ELSE IF kind = "int" THEN (IF hasNA THEN "float64" ELSE "int64")
        ELSE IF kind = "float" THEN "float64"
        ELSE IF kind = "bool" THEN (IF hasNA THEN "object" ELSE "bool")
        ELSE "object"

\* The value one field text takes in a column of the given kind and dtype.
convert(x, kind, dtype) ==
    IF x \in NAStrings THEN NaN
    ELSE IF dtype = "int64" THEN IntCell(IntOf(x))
    ELSE IF dtype = "float64"
         THEN FloatCell(IF x \in IntStrings THEN IntOf(x) ELSE FloatOf(x))
    ELSE IF kind = "bool" THEN BoolCell(x \in TrueStrings)
    ELSE StrCell(x)

\* A line padded with empty fields up to the width w.
pad(l, w) == [j \in 1..w |-> IF j <= Len(l) THEN l[j] ELSE ""]

NoDf == [columns |-> <<>>, dtypes |-> <<>>, leading |-> 0, index |-> <<>>, rows |-> <<>>]

\* The lines the tokenizer keeps: blank lines are skipped.
record_lines(lines) == SelectSeq(lines, LAMBDA l : l # <<>>)

\* The number of fields of a data line: that of the header, or that of the
\* first data line when it holds more.
table_width(text) ==
    IF Len(text) >= 2 /\ Len(text[2]) > Len(text[1]) THEN Len(text[2]) ELSE Len(text[1])

\* The exception pd.read_csv raises, "" when it raises none: a file without
\* any line is an EmptyDataError, a data line with more fields than the
\* first data line is a ParserError.
read_csv_error(lines) ==
    LET text == record_lines(lines)
    IN  IF text = <<>> THEN "EmptyDataError"
        ELSE IF \E i \in 2..Len(text) : Len(text[i]) > table_width(text) THEN "ParserError"
        ELSE ""

\* The table pd.read_csv builds from a file it accepts: the first line is
\* the header; the fields a data line holds beyond the header are its
\* leading fields and become the row index; a short line is padded.
parse_table(lines) ==
    LET text == record_lines(lines)
        header == Head(text)
        data == Tail(text)
        ncols == Len(header)
        width == table_width(text)
        leading == width - ncols
        grid == [i \in DOMAIN data |-> pad(data[i], width)]
        col(j) == [i \in DOMAIN data |-> grid[i][j]]
        kinds == [j \in 1..width |-> value_kind(col(j))]
        dtypes == [j \in 1..width |-> infer_dtype(col(j))]
        cell(i, j) == convert(grid[i][j], kinds[j], dtypes[j])
    IN  [columns |-> header,
         dtypes |-> [j \in 1..ncols |-> dtypes[leading + j]],
         leading |-> leading,
         index |-> [i \in DOMAIN data |->
                       IF leading = 0 THEN <<IntCell(i - 1)>>
                       ELSE [j \in 1..leading |-> cell(i, j)]],
         rows |-> [i \in DOMAIN data |-> [j \in 1..ncols |-> cell(i, leading + j)]]]

\* pd.read_csv with its defaults.
read_csv(lines) ==
    IF read_csv_error(lines) # "" THEN [err |-> read_csv_error(lines), df |-> NoDf]
    ELSE [err |-> "", df |-> parse_table(lines)]

-----------------------------------------------------------------------------
(* The dataframe operations the script calls *)

RECURSIVE Sum(_)
Sum(s) == IF s = <<>> THEN 0 ELSE Head(s) + Sum(Tail(s))

\* df.shape
shape(d) == <<Len(d.rows), Len(d.columns)>>

\* Variant of duplicated_sum that counts every row having a twin, the first
\* occurrence included (keep=False); C7 must tell it from duplicated_sum.
duplicated_sum_keep_false(rows, i, seen) ==
    Cardinality({k \in i..Len(rows) : \E m \in 1..Len(rows) : m # k /\ rows[m] = rows[k]})

\* df.duplicated().sum(): rows are hashed in order (the index is not part of
\* the row, and NaN hashes like NaN); a row seen before counts.
RECURSIVE duplicated_sum(_, _, _)
duplicated_sum(rows, i, seen) ==
    IF i > Len(rows) THEN 0
    ELSE (IF rows[i] \in seen THEN 1 ELSE 0)
         + duplicated_sum(rows, i + 1, seen \cup {rows[i]})

column(d, j) == [i \in DOMAIN d.rows |-> d.rows[i][j]]

\* df.nunique(): distinct values of a column, NaN left out.
nunique(d, j) == Cardinality({c \in Range(column(d, j)) : ~isnull(c)})

\* Dtypes that select_dtypes(include=["object", "category"]) and
\* select_dtypes(include=np.number) keep.
ObjectDtypes == {"object", "category"}
NumberDtypes == {"int64", "uint64", "float64"}

\* df.select_dtypes(include=kinds).columns.tolist()
select_dtypes(d, kinds) ==
    LET idx == SelectSeq([j \in DOMAIN d.columns |-> j], LAMBDA j : d.dtypes[j] \in kinds)
    IN  [k \in DOMAIN idx |-> d.columns[idx[k]]]

\* df.isnull().sum() for one column.
isnull_sum(d, j) == Sum([i \in DOMAIN d.rows |-> IF isnull(d.rows[i][j]) THEN 1 ELSE 0])

\* numpy's round of p/q to an integer, ties to even (q > 0, p >= 0).
round_half_even(p, q) ==
    LET f == p \div q
        r == p % q
    IN  IF 2 * r < q THEN f
        ELSE IF 2 * r > q THEN f + 1
        ELSE IF f % 2 = 0 THEN f ELSE f + 1

\* Variant of isnull_pct that cuts the percentage after two decimals instead
\* of rounding it; C5 must tell it from isnull_pct.
isnull_pct_truncated(d, j) ==
    IF Len(d.rows) = 0 THEN [nan |-> TRUE, h |-> 0]
    ELSE [nan |-> FALSE, h |-> (isnull_sum(d, j) * 10000) \div Len(d.rows)]

\* (df.isnull().mean() * 100).round(2) for one column, in hundredths of a
\* percent; the mean of a column without rows is NaN.
isnull_pct(d, j) ==
    IF Len(d.rows) = 0 THEN [nan |-> TRUE, h |-> 0]
    ELSE [nan |-> FALSE, h |-> round_half_even(isnull_sum(d, j) * 10000, Len(d.rows))]

\* How a cell is written by to_csv: NaN as an empty field, a float by repr.
IntText(n) == CASE n = 0 -> "0" [] n = 1 -> "1" [] n = 2 -> "2"
FloatText(n) == CASE n = 0 -> "0.0" [] n = 1 -> "1.0" [] n = 2 -> "2.0"
format(c) ==
    CASE c.t = "nan" -> ""
      [] c.t = "int" -> IntText(c.n)
      [] c.t = "float" -> FloatText(c.n)
      [] c.t = "bool" -> (IF c.n = 1 THEN "True" ELSE "False")
      [] c.t = "str" -> c.s

\* df.to_csv(index=False): the header line, then one line per row; the row
\* index is not written.
to_csv(d) ==
    <<d.columns>> \o [i \in DOMAIN d.rows |-> [j \in DOMAIN d.columns |-> format(d.rows[i][j])]]

-----------------------------------------------------------------------------
(* The page *)

\* One rendered element: the section it belongs to, what it is, and the
\* columns the user selected for it.
Elem(sec, kind, x, y) == [sec |-> sec, kind |-> kind, x |-> x, y |-> y]

Shown(sec, kind) == \E i \in DOMAIN page : page[i].sec = sec /\ page[i].kind = kind

\* A statement that raises outside every try block: Streamlit shows the
\* exception and the pass stops there.
Uncaught(sec) ==
    /\ page' = page \o <<Elem(sec, "subheader", "", ""), Elem(sec, "exception", "", "")>>
    /\ pc' = "crashed"

\* A section that renders its subheader and the elements es and goes on.
Render(sec, es, next) ==
    /\ page' = page \o <<Elem(sec, "subheader", "", "")>> \o es
    /\ pc' = next

-----------------------------------------------------------------------------
Init ==
    /\ uploaded_file = NoFile
    /\ pc = "start"
    /\ df = NoDf
    /\ metrics = <<>>
    /\ dtype_df = <<>>
    /\ categorical_cols = <<>>
    /\ numeric_cols = <<>>
    /\ missing_df = <<>>
    /\ page = <<>>
    /\ csv = <<>>

\* Variant of UploadPrompt that does not look at uploaded_file; C10 must
\* tell it from UploadPrompt.
UploadPrompt_unguarded ==
    /\ pc = "start"
    /\ page' = <<Elem("upload", "info", "", "")>>
    /\ pc' = "done"
    /\ UNCHANGED <<uploaded_file, df, metrics, dtype_df, categorical_cols,
                   numeric_cols, missing_df, csv>>

\* Lines 22-24, 228-229: no file is uploaded; only the prompt is shown.
UploadPrompt ==
    /\ pc = "start"
    /\ ~uploaded_file.present
    /\ page' = <<Elem("upload", "info", "", "")>>
    /\ pc' = "done"
    /\ UNCHANGED <<uploaded_file, df, metrics, dtype_df, categorical_cols,
                   numeric_cols, missing_df, csv>>

\* Variant of ReadCsv that catches the parse error, shows it and goes on
\* with an empty table; C9 must tell it from ReadCsv.
ReadCsv_caught ==
    /\ pc = "start"
    /\ uploaded_file.present
    /\ LET r == read_csv(uploaded_file.lines)
       IN  /\ page' = <<Elem("load", IF r.err # "" THEN "error" ELSE "success", r.err, "")>>
           /\ pc' = "info"
           /\ df' = r.df
    /\ UNCHANGED <<uploaded_file, metrics, dtype_df, categorical_cols,
                   numeric_cols, missing_df, csv>>

\* Lines 24-26: the file is parsed; a parse error is not caught.
ReadCsv ==
    /\ pc = "start"
    /\ uploaded_file.present
    /\ LET r == read_csv(uploaded_file.lines)
       IN  IF r.err # ""
           THEN /\ page' = <<Elem("load", "exception", r.err, "")>>
                /\ pc' = "crashed"
                /\ df' = df
           ELSE /\ page' = <<Elem("load", "success", "", "")>>
                /\ pc' = "info"
                /\ df' = r.df
    /\ UNCHANGED <<uploaded_file, metrics, dtype_df, categorical_cols,
                   numeric_cols, missing_df, csv>>

\* Lines 31-42: the preview and the three metrics.
DatasetInformation ==
    /\ pc = "info"
    /\ metrics' = <<shape(df)[1], shape(df)[2], duplicated_sum(df.rows, 1, {})>>
    /\ page' = page \o <<Elem("preview", "subheader", "", ""),
                         Elem("preview", "dataframe", "", ""),
                         Elem("info", "subheader", "", ""),
                         Elem("info", "metric", "Rows", ""),
                         Elem("info", "metric", "Columns", ""),
                         Elem("info", "metric", "Duplicate Rows", "")>>
    /\ pc' = "dtypes"
    /\ UNCHANGED <<uploaded_file, df, dtype_df, categorical_cols, numeric_cols,
                   missing_df, csv>>

\* Lines 47-53: the type and the number of distinct values of every column.
ColumnDataTypes ==
    /\ pc = "dtypes"
    /\ dtype_df' = [j \in DOMAIN df.columns |->
                       [Column |-> df.columns[j], DataType |-> df.dtypes[j],
                        UniqueValues |-> nunique(df, j)]]
    /\ Render("dtypes", <<Elem("dtypes", "dataframe", "", "")>>, "classify")
    /\ UNCHANGED <<uploaded_file, df, metrics, categorical_cols, numeric_cols,
                   missing_df, csv>>

\* Lines 58-66: the two column lists.
ColumnClassification ==
    /\ pc = "classify"
    /\ categorical_cols' = select_dtypes(df, ObjectDtypes)
    /\ numeric_cols' = select_dtypes(df, NumberDtypes)
    /\ Render("classify", <<Elem("classify", "write", "categorical", ""),
                            Elem("classify", "write", "numeric", "")>>, "missing")
    /\ UNCHANGED <<uploaded_file, df, metrics, dtype_df, missing_df, csv>>

\* Lines 71-77: missing count and missing percentage of every column.
MissingValueAnalysis ==
    /\ pc = "missing"
    /\ missing_df' = [j \in DOMAIN df.columns |->
                         [Column |-> df.columns[j],
                          MissingCount |-> isnull_sum(df, j),
                          MissingPct |-> isnull_pct(df, j)]]
    /\ Render("missing", <<Elem("missing", "dataframe", "", "")>>, "describe")
    /\ UNCHANGED <<uploaded_file, df, metrics, dtype_df, categorical_cols,
                   numeric_cols, csv>>

\* Lines 82-86: describe() of the numeric columns, or a message.
DescriptiveStatistics ==
    /\ pc = "describe"
    /\ IF numeric_cols # <<>>
       THEN Render("describe", <<Elem("describe", "dataframe", "", "")>>, "uni_num")
       ELSE Render("describe", <<Elem("describe", "info", "", "")>>, "uni_num")
    /\ UNCHANGED <<uploaded_file, df, metrics, dtype_df, categorical_cols,
                   numeric_cols, missing_df, csv>>

\* Lines 91-96: the histogram of a numeric column the user selects; it is
\* built outside every try block.
UnivariateHistogram ==
    /\ pc = "uni_num"
    /\ IF numeric_cols # <<>>
       THEN \E k \in DOMAIN numeric_cols, raises \in BOOLEAN :
               IF raises THEN Uncaught("histogram")
               ELSE Render("histogram",
                           <<Elem("histogram", "chart", numeric_cols[k], "")>>, "uni_cat")
       ELSE Render("histogram", <<>>, "uni_cat")
    /\ UNCHANGED <<uploaded_file, df, metrics, dtype_df, categorical_cols,
                   numeric_cols, missing_df, csv>>

\* Lines 98-105: the value-count bar of a categorical column the user
\* selects; no subheader of its own, no else branch, no try block.
UnivariateValueCounts ==
    /\ pc = "uni_cat"
    /\ IF categorical_cols # <<>>
       THEN \E k \in DOMAIN categorical_cols, raises \in BOOLEAN :
               IF raises
               THEN /\ page' = Append(page, Elem("value_counts", "exception", "", ""))
                    /\ pc' = "crashed"
               ELSE /\ page' = Append(page, Elem("value_counts", "chart",
                                                 categorical_cols[k], ""))
                    /\ pc' = "bar"
       ELSE /\ page' = page
            /\ pc' = "bar"
    /\ UNCHANGED <<uploaded_file, df, metrics, dtype_df, categorical_cols,
                   numeric_cols, missing_df, csv>>

\* A section of the shape of lines 112-141: inside one try block, the chart
\* when both kinds of column exist, a warning otherwise; an exception of the
\* chart is shown as an error message and the pass goes on.
GroupedChart(sec, next) ==
    IF Len(categorical_cols) > 0 /\ Len(numeric_cols) > 0
    THEN \E kx \in DOMAIN categorical_cols, ky \in DOMAIN numeric_cols,
            raises \in BOOLEAN :
            IF raises
            THEN Render(sec, <<Elem(sec, "error", "", "")>>, next)
            ELSE Render(sec, <<Elem(sec, "chart", categorical_cols[kx],
                                    numeric_cols[ky])>>, next)
    ELSE Render(sec, <<Elem(sec, "warning", "", "")>>, next)

\* Lines 110-141.
DynamicBarChart ==
    /\ pc = "bar"
    /\ GroupedChart("bar", "pie")
    /\ UNCHANGED <<uploaded_file, df, metrics, dtype_df, categorical_cols,
                   numeric_cols, missing_df, csv>>

\* Lines 146-172.
DynamicPieChart ==
    /\ pc = "pie"
    /\ GroupedChart("pie", "count_pie")
    /\ UNCHANGED <<uploaded_file, df, metrics, dtype_df, categorical_cols,
                   numeric_cols, missing_df, csv>>

\* Lines 177-191.
CategoryDistributionPie ==
    /\ pc = "count_pie"
    /\ IF Len(categorical_cols) > 0
       THEN \E k \in DOMAIN categorical_cols, raises \in BOOLEAN :
               IF raises
               THEN Render("count_pie", <<Elem("count_pie", "error", "", "")>>, "heatmap")
               ELSE Render("count_pie",
                           <<Elem("count_pie", "chart", categorical_cols[k], "")>>,
                           "heatmap")
       ELSE Render("count_pie", <<Elem("count_pie", "warning", "", "")>>, "heatmap")
    /\ UNCHANGED <<uploaded_file, df, metrics, dtype_df, categorical_cols,
                   numeric_cols, missing_df, csv>>

\* Lines 196-204: the heatmap of the correlation matrix, outside every try
\* block, or a message.
CorrelationHeatmap ==
    /\ pc = "heatmap"
    /\ IF Len(numeric_cols) > 1
       THEN \E raises \in BOOLEAN :
               IF raises THEN Uncaught("heatmap")
               ELSE Render("heatmap", <<Elem("heatmap", "chart", "", "")>>, "outlier")
       ELSE Render("heatmap", <<Elem("heatmap", "info", "", "")>>, "outlier")
    /\ UNCHANGED <<uploaded_file, df, metrics, dtype_df, categorical_cols,
                   numeric_cols, missing_df, csv>>

\* Lines 209-214: the boxplot, outside every try block.
OutlierDetection ==
    /\ pc = "outlier"
    /\ IF numeric_cols # <<>>
       THEN \E k \in DOMAIN numeric_cols, raises \in BOOLEAN :
               IF raises THEN Uncaught("outlier")
               ELSE Render("outlier",
                           <<Elem("outlier", "chart", numeric_cols[k], "")>>, "download")
       ELSE Render("outlier", <<>>, "download")
    /\ UNCHANGED <<uploaded_file, df, metrics, dtype_df, categorical_cols,
                   numeric_cols, missing_df, csv>>

\* Variant of DownloadDataset that drops the rows holding a missing cell
\* from df before it serialises it; C8 must tell it from DownloadDataset.
DownloadDataset_dropna ==
    /\ pc = "download"
    /\ LET kept == SelectSeq([i \in DOMAIN df.rows |-> i],
                             LAMBDA i : \A j \in DOMAIN df.columns : ~isnull(df.rows[i][j]))
           cleaned == [df EXCEPT !.rows = [k \in DOMAIN kept |-> df.rows[kept[k]]],
                                 !.index = [k \in DOMAIN kept |-> df.index[kept[k]]]]
       IN  /\ df' = cleaned
           /\ csv' = to_csv(cleaned)
    /\ Render("download", <<Elem("download", "download_button", "", "")>>, "done")
    /\ UNCHANGED <<uploaded_file, metrics, dtype_df, categorical_cols,
                   numeric_cols, missing_df>>

\* Lines 219-226: the table is serialised and offered for download.
DownloadDataset ==
    /\ pc = "download"
    /\ csv' = to_csv(df)
    /\ Render("download", <<Elem("download", "download_button", "", "")>>, "done")
    /\ UNCHANGED <<uploaded_file, df, metrics, dtype_df, categorical_cols,
                   numeric_cols, missing_df>>

Ended == pc \in {"done", "crashed"}

\* Streamlit runs the script again from the top: every name of the script
\* is unbound again and the page is empty.
Restart ==
    /\ pc' = "start"
    /\ df' = NoDf
    /\ metrics' = <<>>
    /\ dtype_df' = <<>>
    /\ categorical_cols' = <<>>
    /\ numeric_cols' = <<>>
    /\ missing_df' = <<>>
    /\ page' = <<>>
    /\ csv' = <<>>

\* Line 22: the user uploads a file; the script runs again.
UploadFile ==
    /\ Ended
    /\ ~uploaded_file.present
    /\ \E f \in Files : uploaded_file' = [present |-> TRUE, lines |-> f]
    /\ Restart

\* Line 22: the user removes the file; the script runs again.
RemoveFile ==
    /\ Ended
    /\ uploaded_file.present
    /\ uploaded_file' = NoFile
    /\ Restart

\* Any other widget event: the script runs again on the same file.
Rerun ==
    /\ Ended
    /\ uploaded_file.present
    /\ UNCHANGED uploaded_file
    /\ Restart

Next ==
    \/ UploadPrompt
    \/ ReadCsv
    \/ DatasetInformation
    \/ ColumnDataTypes
    \/ ColumnClassification
    \/ MissingValueAnalysis
    \/ DescriptiveStatistics
    \/ UnivariateHistogram
    \/ UnivariateValueCounts
    \/ DynamicBarChart
    \/ DynamicPieChart
    \/ CategoryDistributionPie
    \/ CorrelationHeatmap
    \/ OutlierDetection
    \/ DownloadDataset
    \/ UploadFile
    \/ RemoveFile
    \/ Rerun

Spec == Init /\ [][Next]_vars

-----------------------------------------------------------------------------
(* Vocabulary of the properties *)

ChartSections == {"histogram", "value_counts", "bar", "pie", "count_pie", "heatmap", "outlier"}
CategorySections == {"value_counts", "bar", "pie", "count_pie"}

Classified == Shown("classify", "write")
Exported == Shown("download", "download_button")

InList(name, list) == \E k \in DOMAIN list : list[k] = name

\* Number of rows of the table that equal an earlier row.
EarlierTwin(d) == {i \in DOMAIN d.rows : \E k \in 1..(i - 1) : d.rows[k] = d.rows[i]}

NullRows(d, j) == {i \in DOMAIN d.rows : isnull(d.rows[i][j])}

\* h hundredths is a nearest two-decimal value of 100 * c / n.
NearestHundredth(h, c, n) ==
    LET diff == h * n - 10000 * c
    IN  2 * (IF diff < 0 THEN -diff ELSE diff) <= n

-----------------------------------------------------------------------------
(* C1: once the column lists are computed, every column of the table is in *)
(* exactly one of categorical_cols and numeric_cols.                       *)
C1_DisjointCover ==
    Classified =>
        \A j \in DOMAIN df.columns :
            InList(df.columns[j], categorical_cols) # InList(df.columns[j], numeric_cols)

(* C2: a chart builder that fails is reported by an inline error message   *)
(* and does not end the pass.                                              *)
C2_FailureIsolated ==
    \A i \in DOMAIN page :
        (page[i].sec \in ChartSections /\ page[i].kind \in {"error", "exception"})
            => (page[i].kind = "error" /\ pc # "crashed")

(* C3: in a completed pass over a table without categorical column, each   *)
(* chart that needs one is absent, a warning or information message stands *)
(* in its place, and no error message is shown for it.                     *)
C3_SkippedWithWarning ==
    (pc = "done" /\ Exported /\ categorical_cols = <<>>) =>
        \A sec \in CategorySections :
            /\ ~Shown(sec, "chart")
            /\ Shown(sec, "warning") \/ Shown(sec, "info")
            /\ ~Shown(sec, "error")

(* C4: the bytes offered for download, read again by read_csv, give a      *)
(* table equal to the loaded one: columns, row labels, cells and types.    *)
C4_RoundTrip ==
    Exported => (read_csv(csv).err = "" /\ read_csv(csv).df = df)

(* C6: a pass over a table with fewer than two numeric columns, once it    *)
(* has ended, has drawn no heatmap, shows the "not enough numeric columns" *)
(* message in its place, and has gone on to the outlier and download       *)
(* sections.                                                               *)
C6_NoHeatmapBelowTwo ==
    (Classified /\ Len(numeric_cols) < 2 /\ Ended) =>
        /\ ~Shown("heatmap", "chart")
        /\ Shown("heatmap", "info")
        /\ Shown("outlier", "subheader")
        /\ Exported

(* C5, as amended: for every column of a table with at least one row the   *)
(* Missing Count is the number of null cells of the column and the         *)
(* Missing % is 100 * nulls / rows to the nearest hundredth; for a table   *)
(* without rows the Missing Count is 0 and the Missing % is NaN.           *)
C5_MissingPct ==
    \A j \in DOMAIN missing_df :
        /\ missing_df[j].Column = df.columns[j]
        /\ missing_df[j].MissingCount = Cardinality(NullRows(df, j))
        /\ IF Len(df.rows) = 0
           THEN missing_df[j].MissingPct.nan
           ELSE /\ ~missing_df[j].MissingPct.nan
                /\ NearestHundredth(missing_df[j].MissingPct.h,
                                    Cardinality(NullRows(df, j)), Len(df.rows))

(* C5 as stated: the Missing % is that number for every row count, the     *)
(* table of a header without data rows included.                           *)
C5_AsStated ==
    \A j \in DOMAIN missing_df :
        /\ missing_df[j].MissingCount = Cardinality(NullRows(df, j))
        /\ ~missing_df[j].MissingPct.nan
        /\ Len(df.rows) > 0 =>
               NearestHundredth(missing_df[j].MissingPct.h,
                                Cardinality(NullRows(df, j)), Len(df.rows))

\* A column of three rows, two of them missing, is reported as 66.67 %.
C5_Witness ==
    /\ Len(df.rows) = 3
    /\ \E j \in DOMAIN missing_df :
          missing_df[j].MissingCount = 2 /\ missing_df[j].MissingPct.h = 6667

(* C7, as amended: the metrics shown are the number of rows and of columns *)
(* of the parsed table and the number of rows equal to an earlier row;     *)
(* that number is 0 when all rows differ, and at most rows - 1 when the    *)
(* table has a row.                                                        *)
C7_Metrics ==
    metrics # <<>> =>
        /\ metrics[1] = Len(df.rows)
        /\ metrics[2] = Len(df.columns)
        /\ metrics[3] = Cardinality(EarlierTwin(df))
        /\ (\A i, k \in DOMAIN df.rows : i # k => df.rows[i] # df.rows[k]) => metrics[3] = 0
        /\ Len(df.rows) >= 1 => metrics[3] <= metrics[1] - 1

(* C7 as stated: the duplicate count is at most rows - 1 for every table.  *)
C7_AsStated ==
    metrics # <<>> =>
        /\ metrics[1] = Len(df.rows)
        /\ metrics[2] = Len(df.columns)
        /\ metrics[3] = Cardinality(EarlierTwin(df))
        /\ metrics[3] <= metrics[1] - 1

\* Three rows, the third equal to the first and the second different.
C7_Witness ==
    /\ metrics = <<3, 2, 1>>
    /\ df.rows[1] = df.rows[3]
    /\ df.rows[1] # df.rows[2]

(* C8: from the step after the load to the end of the pass, no step        *)
(* changes the table.                                                      *)
C8_TableNeverMutated ==
    [][(pc # "start" /\ pc' # "start") => df' = df]_vars

\* A pass that ended at the export step after one chart was drawn and
\* another one failed, with the table still the one that was parsed.
C8_Witness ==
    /\ pc = "done"
    /\ Exported
    /\ Shown("bar", "error")
    /\ Shown("pie", "chart")
    /\ \E i \in DOMAIN df.rows, j \in DOMAIN df.columns : isnull(df.rows[i][j])
    /\ df = read_csv(uploaded_file.lines).df

(* C9: when the uploaded file does not parse, the pass ends at the load    *)
(* step: the page holds the exception alone, and no metric, table, column  *)
(* list or download exists.                                                *)
C9_ParseFailureEndsPass ==
    (pc # "start" /\ uploaded_file.present /\ read_csv_error(uploaded_file.lines) # "") =>
        /\ pc = "crashed"
        /\ page = <<Elem("load", "exception", read_csv_error(uploaded_file.lines), "")>>
        /\ df = NoDf
        /\ metrics = <<>> /\ dtype_df = <<>> /\ missing_df = <<>>
        /\ categorical_cols = <<>> /\ numeric_cols = <<>>
        /\ csv = <<>>

\* A file whose second data line holds more fields than the first.
C9_Witness ==
    /\ pc = "crashed"
    /\ Shown("load", "exception")
    /\ read_csv_error(uploaded_file.lines) = "ParserError"

====
